---- MODULE Spec2Model ----
(***************************************************************************)
(* The ambient-soundscape audio engine of flowstate-pwa (useAudioEngine)   *)
(* as a state machine.                                                     *)
(*                                                                         *)
(* Units.  Gains and volumes are in fiftieths: 1.0 is 50, 0.4 is 20, 0.12  *)
(* is 6; every target the code computes from the volumes used here is a    *)
(* whole number of fiftieths.  The audio clock advances in ticks of 0.1 s, *)
(* the largest step that divides both ramp lengths of the code (0.5 s and  *)
(* 0.2 s).                                                                 *)
(*                                                                         *)
(* React.  mode/enabled/volume are the values captured by the closures of  *)
(* the last render; modeState/enabledState/volumeState are the React state *)
(* cells written by setModeState/setEnabledState/setVolumeState, which the *)
(* closures only see after the next render.                                *)
(***************************************************************************)
EXTENDS Integers, Sequences, FiniteSets

(* ------------------------------ constants ------------------------------ *)

\* FADE_TIME = 0.5 s, in ticks of 0.1 s
FADE_TIME == 5
\* the ramp length of setVolume, 0.2 s
VOLUME_RAMP == 2
\* the ramp length of the master-gain effect, 0.5 s
MASTER_RAMP == 5
\* useState(0.4)
INITIAL_VOLUME == 20
\* the default value of a freshly created GainNode's gain (1.0)
DEFAULT_GAIN == 50
\* the upper end of the volume range (1.0)
FULL_VOLUME == 50

\* the number of events (public calls setMode, setEnabled, setVolume, and
\* changes of the timer signal) in one run
MaxEvents == 3

SoundMode == {"rain", "wind", "waves"}
\* arguments handed to setVolume, in and out of [0, 1]
VolumeInputs == {-25, 40, 75}
\* the state the platform leaves a context in after it was created or asked
\* to resume: the clock of a suspended context stands still, so nothing can
\* be observed between a resume() call and the settling of its promise
ContextStates == {"suspended", "running"}

VARIABLES
  mode, enabled, volume,                 \* closure values of the last render
  modeState, enabledState, volumeState,  \* React state cells
  isRunning, isBreak,                    \* the timer store's signal
  audioCtx,                              \* "null", "suspended", "running", "closed"
  mounted,                               \* the hook's component is mounted
  listeners,                             \* window events the unlock handler listens to
  masterGain,                            \* AudioParam of the master GainNode
  nodes,                                 \* every ModeNodes ever built
  currentNodes,                          \* currentNodesRef: index in nodes, 0 = null
  events,                                \* observer: calls and signals so far
  lastOp,                                \* observer: the last public call
  sinceOp,                               \* observer: ticks elapsed since it
  masterRampBy,                          \* observer: who scheduled the master ramp
  ctxCreated,                            \* observer: AudioContext constructions
  closeCalls,                            \* observer: calls of ctx.close()
  unlockRuns,                            \* observer: runs of the unlock handler
  overlap,                               \* observer: crossfade overlap seen
  noise,                                 \* createNoiseBuffer: the loop's state
  timer                                  \* the timer store's times, the Timer
                                         \* component's interval, the last timer step

vars == <<mode, enabled, volume, modeState, enabledState, volumeState,
          isRunning, isBreak, audioCtx, masterGain, nodes, currentNodes,
          events, lastOp, sinceOp, masterRampBy, overlap, mounted, listeners,
          ctxCreated, closeCalls, unlockRuns, noise, timer>>

(* --------------------------- createNoiseBuffer ------------------------- *)

\* samples and filter state are fixed-point numbers, UNIT to 1.0
UNIT == 100000

\* the samples generated per buffer, and the times the random input may
\* change along a buffer
MaxSamples == 24
MaxChanges == 2

NoiseTypes == {"white", "pink", "brown"}

\* Math.random(), in [0, 1): the smallest value, the middle, the largest
RandomInputs == {0, UNIT \div 2, UNIT - 1}

\* x * c, for a coefficient c given in units of 10^-7, by long multiplication
\* in pieces that fit the integers
MulE7(x, c) ==
  LET xh == x \div 1000
      xl == x % 1000
      ch == c \div 10000
      cl == c % 10000
  IN  xh * ch + (xh * cl + xl * ch * 10 + (xl * cl) \div 1000) \div 10000

\* mutant of White: the shift by 1 is missing
WhiteUnshifted(r) == r * 2

\* Math.random() * 2 - 1
White(r) == r * 2 - UNIT

\* the state of the generator's loop before the first sample: the colour, the
\* number of samples written, the pink filter's b0..b6, the brown filter's
\* lastOut, the sample written last, the random input drawn last and the
\* number of times the input changed
NewBuffer(t) ==
  [type |-> t, i |-> 0, b |-> <<0, 0, 0, 0, 0, 0, 0>>, lastOut |-> 0,
   data |-> 0, r |-> 0, changes |-> 0]

\* no buffer is being generated
NoBuffer == NewBuffer("none")

\* one iteration of the pink loop: the filter state afterwards
PinkState(b, white) ==
  <<MulE7(b[1], 9988600) + MulE7(white, 555179),
    MulE7(b[2], 9933200) + MulE7(white, 750759),
    MulE7(b[3], 9690000) + MulE7(white, 1538520),
    MulE7(b[4], 8665000) + MulE7(white, 3104856),
    MulE7(b[5], 5500000) + MulE7(white, 5329522),
    0 - MulE7(b[6], 7616000) - MulE7(white, 168980),
    MulE7(white, 1159260)>>

\* one iteration of the pink loop: the sample; nb is the state afterwards,
\* and b6 enters with its value from the iteration before
PinkSample(b, nb, white) ==
  MulE7(nb[1] + nb[2] + nb[3] + nb[4] + nb[5] + nb[6] + b[7]
          + MulE7(white, 5362000),
        1100000)

\* one iteration of the brown loop: lastOut = (lastOut + 0.02 * white) / 1.02
BrownState(lastOut, white) == ((lastOut + MulE7(white, 200000)) * 50) \div 51

\* one iteration of the brown loop: the sample, lastOut * 3.5
BrownSample(lastOut) == MulE7(lastOut, 35000000)

\* one iteration of createNoiseBuffer's loop, with Math.random() giving r
NoiseStep(n, r) ==
  LET white == White(r)
      nb == PinkState(n.b, white)
      nl == BrownState(n.lastOut, white)
      n1 == [n EXCEPT !.i = @ + 1, !.r = r,
                      !.changes = IF n.i > 0 /\ r # n.r THEN @ + 1 ELSE @]
  IN  IF n.type = "white" THEN [n1 EXCEPT !.data = white]
      ELSE IF n.type = "pink"
      THEN [n1 EXCEPT !.b = nb, !.data = PinkSample(n.b, nb, white)]
      ELSE [n1 EXCEPT !.lastOut = nl, !.data = BrownSample(nl)]

(* ------------------------------ AudioParam ----------------------------- *)

\* an AudioParam: current value, end value of the pending ramp, ticks left
Param(v) == [val |-> v, tgt |-> v, rem |-> 0]

\* mutant of RampFromCurrent: the new ramp is anchored at 0
RampFromZero(p, target, d) == [val |-> 0, tgt |-> target, rem |-> d]

\* cancelScheduledValues(now); setValueAtTime(param.value, now);
\* linearRampToValueAtTime(target, now + d)
RampFromCurrent(p, target, d) == [val |-> p.val, tgt |-> target, rem |-> d]

\* setValueAtTime(v, now); linearRampToValueAtTime(target, now + d)
RampFrom(v, target, d) == [val |-> v, tgt |-> target, rem |-> d]

\* one tick of the audio clock on a parameter: linear interpolation
AdvanceParam(p) ==
  IF p.rem = 0 THEN p
  ELSE [val |-> p.val + ((p.tgt - p.val) \div p.rem),
        tgt |-> p.tgt, rem |-> p.rem - 1]

(* ------------------------- periodic sources ---------------------------- *)

\* an AudioScheduledSourceNode (buffer player or oscillator):
\*   st     "absent" (field undefined), "created", "started", "stopped"
\*   stopIn ticks until a scheduled stop takes effect, -1 if none is scheduled
AbsentSource == [st |-> "absent", stopIn |-> -1]
CreatedSource == [st |-> "created", stopIn |-> -1]
StartedSource == [st |-> "started", stopIn |-> -1]

\* start() raises InvalidStateError unless the node was never started
StartThrows(src) == src.st # "created"

\* stop(when) raises InvalidStateError on a node that was never started
StopThrows(src) == src.st = "created"

\* stop(now + d) on a node on which it does not raise
StopSource(src, d) ==
  IF src.st = "started"
  THEN IF d = 0 THEN [st |-> "stopped", stopIn |-> -1]
       ELSE [st |-> "started", stopIn |-> d]
  ELSE src

\* one tick of the audio clock on a source
AdvanceSource(src) ==
  IF src.st = "started" /\ src.stopIn > 0
  THEN IF src.stopIn = 1 THEN [st |-> "stopped", stopIn |-> -1]
       ELSE [st |-> "started", stopIn |-> src.stopIn - 1]
  ELSE src

SourceFields == {"source", "spraySource", "lfoOsc", "panOsc"}

\* the source plays and no stop is scheduled for it
Sounding(src) == src.st = "started" /\ src.stopIn = -1

(* ------------------------------ ModeNodes ------------------------------ *)

\* the nodes buildModeNodes creates for a mode.  A node that the returned
\* ModeNodes holds is named by its field there (the waves body player is
\* "source"), any other node by the builder's local variable.
CreatedNodes(m) ==
  IF m = "waves"
  THEN {"gain", "source", "bodyLPF", "bodyGain", "spraySource", "sprayHPF",
        "sprayGain", "panNode", "masterFilter", "lfoOsc", "lfoGain",
        "bodyModGain", "sprayModGain", "filterModGain", "panOsc", "panGain"}
  ELSE IF m = "wind" THEN {"gain", "source", "filter", "lfoOsc", "lfoGain"}
  ELSE {"gain", "source", "filter"}

\* the created nodes that the ModeNodes returned by buildModeNodes holds
ReturnedNodes(m) ==
  IF m = "waves"
  THEN {"source", "gain", "lfoOsc", "lfoGain", "spraySource", "bodyGain",
        "sprayGain", "masterFilter", "panNode", "panOsc", "panGain"}
  ELSE IF m = "wind" THEN {"source", "gain", "filter", "lfoOsc", "lfoGain"}
  ELSE {"source", "gain", "filter"}

\* the connections buildModeNodes makes, <<from, to>>; "master" is the
\* master gain, and x.p is the parameter p of node x
ModeEdges(m) ==
  IF m = "waves"
  THEN {<<"source", "bodyLPF">>, <<"bodyLPF", "bodyGain">>,
        <<"spraySource", "sprayHPF">>, <<"sprayHPF", "sprayGain">>,
        <<"bodyGain", "panNode">>, <<"sprayGain", "panNode">>,
        <<"panNode", "masterFilter">>, <<"masterFilter", "gain">>,
        <<"lfoOsc", "lfoGain">>,
        <<"lfoGain", "bodyModGain">>, <<"bodyModGain", "bodyGain.gain">>,
        <<"lfoGain", "sprayModGain">>, <<"sprayModGain", "sprayGain.gain">>,
        <<"lfoGain", "filterModGain">>,
        <<"filterModGain", "masterFilter.frequency">>,
        <<"panOsc", "panGain">>, <<"panGain", "panNode.pan">>,
        <<"gain", "master">>}
  ELSE IF m = "wind"
  THEN {<<"lfoOsc", "lfoGain">>, <<"lfoGain", "filter.frequency">>,
        <<"source", "filter">>, <<"filter", "gain">>, <<"gain", "master">>}
  ELSE {<<"source", "filter">>, <<"filter", "gain">>, <<"gain", "master">>}

\* disconnect() on each node of from: all its outgoing connections go
Disconnect(edges, from) == {c \in edges : c[1] \notin from}

\* the start() calls buildModeNodes itself makes on the periodic sources
BuilderStarts(m) ==
  [f \in SourceFields |->
     IF m = "waves" \/ (m = "wind" /\ f = "lfoOsc") THEN 1 ELSE 0]

\* buildModeNodes(ctx, mode): the graph as returned to startMode
BuildModeNodes(m) ==
  IF m = "waves"
  THEN [mode |-> m, gain |-> Param(DEFAULT_GAIN), connected |-> TRUE,
        source |-> StartedSource, spraySource |-> StartedSource,
        lfoOsc |-> StartedSource, panOsc |-> StartedSource,
        edges |-> ModeEdges(m), startCalls |-> BuilderStarts(m),
        teardown |-> <<>>]
  ELSE [mode |-> m, gain |-> Param(DEFAULT_GAIN), connected |-> TRUE,
        source |-> CreatedSource, spraySource |-> AbsentSource,
        lfoOsc |-> IF m = "wind" THEN StartedSource ELSE AbsentSource,
        panOsc |-> AbsentSource,
        edges |-> ModeEdges(m), startCalls |-> BuilderStarts(m),
        teardown |-> <<>>]

\* the calls <<op, node>> stopModeNodes makes, in order, on those of the
\* named ModeNodes fields that are defined for the mode
TeardownCalls(op, fields, m) ==
  LET Defined(c) == c[2] \in ReturnedNodes(m)
  IN  SelectSeq([k \in 1..Len(fields) |-> <<op, fields[k]>>], Defined)

\* mutant of StopModeNodes: the spray layer's player is forgotten
StopModeNodesSkipsSpray(g, fadeOut) ==
  LET d == IF fadeOut THEN FADE_TIME ELSE 0
  IN  [g |-> [g EXCEPT
                !.gain = IF fadeOut THEN RampFromCurrent(g.gain, 0, FADE_TIME)
                         ELSE g.gain,
                !.source = StopSource(g.source, d),
                !.connected = FALSE,
                !.lfoOsc = StopSource(g.lfoOsc, 0),
                !.panOsc = StopSource(g.panOsc, 0)],
       threw |-> FALSE]

\* stopModeNodes(nodes, ctx, fadeOut) on a non-null graph: the graph afterwards
\* and whether the call raised.  The two buffer players are stopped inside
\* try/catch; the oscillators are stopped outside of one.
StopModeNodes(g, fadeOut) ==
  LET d == IF fadeOut THEN FADE_TIME ELSE 0
      g1 == [g EXCEPT
               !.gain = IF fadeOut THEN RampFromCurrent(g.gain, 0, FADE_TIME)
                        ELSE g.gain,
               !.source = StopSource(g.source, d),
               !.spraySource = StopSource(g.spraySource, d),
               !.connected = FALSE,
               !.edges = Disconnect(@, {"source", "spraySource", "gain",
                                        "bodyGain", "sprayGain", "filter",
                                        "masterFilter", "panNode"}),
               !.teardown =
                  @ \o TeardownCalls("stop", <<"source", "spraySource">>, g.mode)
                    \o TeardownCalls("disconnect",
                          <<"source", "spraySource", "gain", "bodyGain",
                            "sprayGain", "filter", "masterFilter", "panNode">>,
                          g.mode)]
  IN  IF StopThrows(g1.lfoOsc) THEN [g |-> g1, threw |-> TRUE]
      ELSE LET g2 == [g1 EXCEPT !.lfoOsc = StopSource(g1.lfoOsc, 0),
                                !.edges = Disconnect(@, {"lfoOsc", "lfoGain"}),
                                !.teardown =
                                   @ \o TeardownCalls("stop", <<"lfoOsc">>, g.mode)
                                     \o TeardownCalls("disconnect",
                                           <<"lfoOsc", "lfoGain">>, g.mode)]
           IN  IF StopThrows(g2.panOsc) THEN [g |-> g2, threw |-> TRUE]
               ELSE [g |-> [g2 EXCEPT !.panOsc = StopSource(g2.panOsc, 0),
                                      !.edges = Disconnect(@, {"panOsc", "panGain"}),
                                      !.teardown =
                                         @ \o TeardownCalls("stop", <<"panOsc">>, g.mode)
                                           \o TeardownCalls("disconnect",
                                                 <<"panOsc", "panGain">>, g.mode)],
                     threw |-> FALSE]

(* ------------------------------ the hook ------------------------------- *)

\* the hook's state as one record; threw: the call in progress has raised
Engine ==
  [mode |-> mode, enabled |-> enabled, volume |-> volume,
   modeState |-> modeState, enabledState |-> enabledState,
   volumeState |-> volumeState,
   isRunning |-> isRunning, isBreak |-> isBreak,
   audioCtx |-> audioCtx,
   masterGain |-> masterGain, nodes |-> nodes, currentNodes |-> currentNodes,
   masterRampBy |-> masterRampBy, ctxCreated |-> ctxCreated, threw |-> FALSE]

\* mutant of EnsureContext: the test of audioCtxRef.current is missing
EnsureContextAlwaysCreates(e, created) ==
  [e EXCEPT !.audioCtx = created, !.masterGain = Param(0),
            !.ctxCreated = @ + 1]

\* ensureContext(); created is the state the platform gives a new context
EnsureContext(e, created) ==
  IF e.audioCtx = "null"
  THEN [e EXCEPT !.audioCtx = created, !.masterGain = Param(0),
                 !.ctxCreated = @ + 1]
  ELSE e

\* resumeContextIfNeeded(): a suspended context is asked to resume, and
\* the outcome (resolved or rejected) is the platform's
ResumeContextIfNeeded(e, outcome) ==
  LET e1 == EnsureContext(e, outcome)
  IN  IF e1.audioCtx = "suspended" THEN [e1 EXCEPT !.audioCtx = outcome]
      ELSE e1

\* the end value startMode gives the new graph's fade-in
StartTarget(e) == IF e.enabled THEN e.volume ELSE 0

\* startMode(newMode)
StartMode(e, newMode, created) ==
  LET e1 == ResumeContextIfNeeded(e, created)
      old == e1.currentNodes
      stopped == StopModeNodes(e1.nodes[old], TRUE)
      e2 == IF old = 0 THEN e1
            ELSE [e1 EXCEPT !.nodes[old] = stopped.g, !.threw = stopped.threw]
      built == BuildModeNodes(newMode)
      new == Len(e2.nodes) + 1
      \* currentNodesRef.current = nodes; nodes.gain.gain.setValueAtTime(0, now)
      e3 == [e2 EXCEPT !.nodes = Append(e2.nodes, [built EXCEPT !.gain = Param(0)]),
                       !.currentNodes = new]
      \* nodes.source.start?.()
      e4 == [e3 EXCEPT !.nodes[new].startCalls["source"] = @ + 1]
  IN  IF e2.threw THEN e2
      ELSE IF StartThrows(built.source) THEN [e4 EXCEPT !.threw = TRUE]
      ELSE [e4 EXCEPT !.nodes[new].source = StartedSource,
                      !.nodes[new].gain = RampFrom(0, StartTarget(e), FADE_TIME)]

\* mutant of StopAll: the current graph is dropped without stopModeNodes
StopAllDropsGraph(e) ==
  IF e.audioCtx = "null" THEN e
  ELSE [e EXCEPT !.masterGain = RampFromCurrent(e.masterGain, 0, FADE_TIME),
                 !.masterRampBy = "stopAll",
                 !.currentNodes = 0]

\* stopAll()
StopAll(e) ==
  IF e.audioCtx = "null" THEN e
  ELSE LET e1 == [e EXCEPT !.masterGain = RampFromCurrent(e.masterGain, 0, FADE_TIME),
                           !.masterRampBy = "stopAll"]
           cur == e1.currentNodes
           stopped == StopModeNodes(e1.nodes[cur], TRUE)
       IN  IF cur = 0 THEN e1
           ELSE IF stopped.threw
           THEN [e1 EXCEPT !.nodes[cur] = stopped.g, !.threw = TRUE]
           ELSE [e1 EXCEPT !.nodes[cur] = stopped.g, !.currentNodes = 0]

\* mutant of SetMode: the early return of a disabled engine is missing
SetModeAlwaysStarts(e, newMode, created) ==
  StartMode([e EXCEPT !.modeState = newMode], newMode, created)

\* setMode(newMode)
SetMode(e, newMode, created) ==
  LET e1 == [e EXCEPT !.modeState = newMode]
  IN  IF ~e.enabled THEN e1 ELSE StartMode(e1, newMode, created)

\* setEnabled(on)
SetEnabled(e, on, created) ==
  LET e1 == [e EXCEPT !.enabledState = on]
  IN  IF on THEN StartMode(ResumeContextIfNeeded(e1, created), e1.mode, created)
      ELSE StopAll(e1)

\* mutant of Clamp: only the upper end is clamped
ClampUpperOnly(v) == IF v > FULL_VOLUME THEN FULL_VOLUME ELSE v

\* Math.max(0, Math.min(1, v))
Clamp(v) == IF v < 0 THEN 0 ELSE IF v > FULL_VOLUME THEN FULL_VOLUME ELSE v

\* mutant of SetVolume: the ramp goes to the graph built last, current or not
SetVolumeOnLastBuilt(e, v) ==
  LET e1 == [e EXCEPT !.volumeState = Clamp(v)]
      last == Len(e1.nodes)
  IN  IF e1.audioCtx = "null" \/ last = 0 THEN e1
      ELSE [e1 EXCEPT !.nodes[last].gain =
                         RampFromCurrent(e1.nodes[last].gain, Clamp(v), VOLUME_RAMP)]

\* setVolume(v)
SetVolume(e, v) ==
  LET e1 == [e EXCEPT !.volumeState = Clamp(v)]
      cur == e1.currentNodes
  IN  IF e1.audioCtx = "null" \/ cur = 0 THEN e1
      ELSE [e1 EXCEPT !.nodes[cur].gain =
                         RampFromCurrent(e1.nodes[cur].gain, Clamp(v), VOLUME_RAMP)]

\* mutant of MasterMultiplier: the break phase is not looked at
MasterMultiplierIgnoresBreak(en, run, brk) ==
  IF ~en THEN 0 ELSE IF run THEN 10 ELSE 3

\* the multiplier of the master-gain effect, in tenths
MasterMultiplier(en, run, brk) ==
  IF ~en THEN 0 ELSE IF run /\ ~brk THEN 10 ELSE 3

\* the master-gain effect, run after a render whose dependencies changed
MasterGainEffect(e) ==
  IF e.audioCtx = "null" THEN e
  ELSE [e EXCEPT
          !.masterGain =
             RampFromCurrent(e.masterGain,
                (MasterMultiplier(e.enabled, e.isRunning, e.isBreak) * e.volume) \div 10,
                MASTER_RAMP),
          !.masterRampBy = "effect"]

\* one render of the hook: the closures take the state cells' and the store's
\* values, and the master-gain effect runs if one of its dependencies changed
RenderHook(e, run, brk) ==
  LET e1 == [e EXCEPT !.mode = e.modeState, !.enabled = e.enabledState,
                      !.volume = e.volumeState,
                      !.isRunning = run, !.isBreak = brk]
  IN  IF <<e1.isRunning, e1.isBreak, e1.enabled, e1.volume>>
           # <<e.isRunning, e.isBreak, e.enabled, e.volume>>
      THEN MasterGainEffect(e1) ELSE e1

\* one tick (0.1 s) of the audio clock: every scheduled ramp and stop advances
AdvanceGraph(g) ==
  [g EXCEPT !.gain = AdvanceParam(g.gain),
            !.source = AdvanceSource(g.source),
            !.spraySource = AdvanceSource(g.spraySource),
            !.lfoOsc = AdvanceSource(g.lfoOsc),
            !.panOsc = AdvanceSource(g.panOsc)]

AdvanceClock(e) ==
  [e EXCEPT !.masterGain = AdvanceParam(e.masterGain),
            !.nodes = [i \in DOMAIN e.nodes |-> AdvanceGraph(e.nodes[i])]]

(* ------------------------------ observers ------------------------------ *)

NoOp ==
  [op |-> "none", arg |-> 0, enabled |-> FALSE, prev |-> 0, threw |-> FALSE,
   n |-> 0]

\* the record of a public call: its name and argument, the enabled value its
\* closure saw, the graph that was current before it, whether it raised, and
\* its number among the events
OpRecord(name, a, e) ==
  [op |-> name, arg |-> a, enabled |-> enabled, prev |-> currentNodes,
   threw |-> e.threw, n |-> events + 1]

NoOverlap == [open |-> FALSE, old |-> 0, left |-> 0, seen |-> FALSE]

\* a mode switch while enabled, with a graph playing, opens a crossfade window
OverlapAfterSetMode(e) ==
  IF enabled /\ currentNodes # 0
  THEN [open |-> TRUE, old |-> currentNodes, left |-> FADE_TIME, seen |-> FALSE]
  ELSE NoOverlap

\* both linear ramps are above 0 somewhere inside the tick from e to e2
BothAudible(e, e2, old) ==
  /\ e.nodes[old].gain.val > 0 \/ e2.nodes[old].gain.val > 0
  /\ e.nodes[e.currentNodes].gain.val > 0 \/ e2.nodes[e.currentNodes].gain.val > 0

OverlapAfterTick(e, e2) ==
  IF overlap.open /\ overlap.left > 0
  THEN [overlap EXCEPT !.left = @ - 1,
                       !.seen = @ \/ BothAudible(e, e2, overlap.old)]
  ELSE overlap

(* ------------------------------- actions ------------------------------- *)

\* the window events the unlock effect registers its handler for
UnlockEvents == {"touchstart", "click"}

InstallHook(e) ==
  /\ mode' = e.mode /\ enabled' = e.enabled /\ volume' = e.volume
  /\ modeState' = e.modeState /\ enabledState' = e.enabledState
  /\ volumeState' = e.volumeState
  /\ audioCtx' = e.audioCtx
  /\ masterGain' = e.masterGain /\ nodes' = e.nodes
  /\ currentNodes' = e.currentNodes /\ masterRampBy' = e.masterRampBy
  /\ ctxCreated' = e.ctxCreated

\* a step of the audio hook: the noise generator's loop and the timer's
\* times are not part of it
Install(e) == InstallHook(e) /\ UNCHANGED <<noise, timer>>

\* the timer store's focusTime and breakTime at creation, in seconds
FOCUS_TIME == 25 * 60
BREAK_TIME == 5 * 60

\* timeLeft, focusTime and breakTime of the new store; timerRef: the Timer
\* component has an interval registered; op and at: the last step of the
\* timer and the timeLeft it found
InitialTimer ==
  [timeLeft |-> FOCUS_TIME, focusTime |-> FOCUS_TIME, breakTime |-> BREAK_TIME,
   timerRef |-> FALSE, op |-> "none", at |-> FOCUS_TIME]

\* the hook after its first render and its effects
HookInit ==
  /\ mode = "rain" /\ enabled = FALSE /\ volume = INITIAL_VOLUME
  /\ modeState = "rain" /\ enabledState = FALSE /\ volumeState = INITIAL_VOLUME
  /\ isRunning = FALSE /\ isBreak = FALSE
  /\ audioCtx = "null"
  /\ masterGain = Param(0) /\ nodes = <<>> /\ currentNodes = 0
  /\ events = 0 /\ lastOp = NoOp /\ sinceOp = 0 /\ masterRampBy = "none"
  /\ overlap = NoOverlap
  /\ mounted = TRUE /\ listeners = UnlockEvents
  /\ ctxCreated = 0 /\ closeCalls = 0 /\ unlockRuns = 0
  /\ timer = InitialTimer

Init == HookInit /\ noise = NoBuffer

\* the UI calls setMode(m)
CallSetMode(m) ==
  /\ mounted /\ events < MaxEvents
  /\ \E created \in ContextStates :
       LET e == SetMode(Engine, m, created)
       IN  /\ Install(e)
           /\ lastOp' = OpRecord("setMode", m, e)
           /\ overlap' = OverlapAfterSetMode(e)
  /\ sinceOp' = 0 /\ events' = events + 1
  /\ UNCHANGED <<isRunning, isBreak, mounted, listeners, closeCalls, unlockRuns>>

\* the UI calls setEnabled(on)
CallSetEnabled(on) ==
  /\ mounted /\ events < MaxEvents
  /\ \E created \in ContextStates :
       LET e == SetEnabled(Engine, on, created)
       IN  /\ Install(e)
           /\ lastOp' = OpRecord("setEnabled", on, e)
  /\ sinceOp' = 0 /\ events' = events + 1
  /\ overlap' = NoOverlap
  /\ UNCHANGED <<isRunning, isBreak, mounted, listeners, closeCalls, unlockRuns>>

\* the UI calls setVolume(v)
CallSetVolume(v) ==
  /\ mounted /\ events < MaxEvents
  /\ LET e == SetVolume(Engine, v)
     IN  /\ Install(e)
         /\ lastOp' = OpRecord("setVolume", v, e)
  /\ sinceOp' = 0 /\ events' = events + 1
  /\ overlap' = NoOverlap
  /\ UNCHANGED <<isRunning, isBreak, mounted, listeners, closeCalls, unlockRuns>>

\* React re-renders the hook after a state cell changed
Render ==
  /\ mounted
  /\ <<modeState, enabledState, volumeState>> # <<mode, enabled, volume>>
  /\ Install(RenderHook(Engine, isRunning, isBreak))
  /\ UNCHANGED <<isRunning, isBreak, events, lastOp, sinceOp, overlap, mounted,
                 listeners, closeCalls, unlockRuns>>

\* the audio clock of a running context advances by one tick; React
\* re-renders at the end of the event handler that changed a state cell, long
\* before a tick has passed
Tick ==
  /\ audioCtx = "running"
  /\ <<modeState, enabledState, volumeState>> = <<mode, enabled, volume>>
  /\ LET e2 == AdvanceClock(Engine)
     IN  /\ Install(e2)
         /\ overlap' = OverlapAfterTick(Engine, e2)
  /\ sinceOp' = IF sinceOp < FADE_TIME THEN sinceOp + 1 ELSE sinceOp
  /\ UNCHANGED <<isRunning, isBreak, events, lastOp, mounted, listeners,
                 closeCalls, unlockRuns>>

\* the timer store changes {isRunning, isBreak} (toggleTimer: a phase flip
\* when the time is up, otherwise pause/resume) and the hook, subscribed to
\* the store, re-renders
TimerSignal(timeUp) ==
  /\ mounted /\ events < MaxEvents /\ events' = events + 1
  /\ isBreak' = IF timeUp THEN ~isBreak ELSE isBreak
  /\ isRunning' = IF timeUp THEN TRUE ELSE ~isRunning
  /\ Install(RenderHook(Engine, isRunning', isBreak'))
  /\ UNCHANGED <<lastOp, sinceOp, overlap, mounted, listeners, closeCalls,
                 unlockRuns>>


\* mutant of UnlockHandler: only the listener of the event at hand is removed
UnlockHandlerKeepsOther(listening, kind) == listening \ {kind}

\* the listeners left after unlockHandler ran for an event of this kind
UnlockHandler(listening, kind) == listening \ {"touchstart", "click"}

\* a pointer or touch event reaches the window: the unlock handler, if it
\* still listens for it, creates/resumes the context and removes its listeners
Gesture(kind) ==
  /\ IF kind \in listeners
     THEN /\ \E outcome \in ContextStates :
               Install(ResumeContextIfNeeded(Engine, outcome))
          /\ listeners' = UnlockHandler(listeners, kind)
          /\ unlockRuns' = unlockRuns + 1
     ELSE UNCHANGED <<mode, enabled, volume, modeState, enabledState,
                      volumeState, audioCtx, masterGain, nodes, currentNodes,
                      masterRampBy, ctxCreated, listeners, unlockRuns, noise,
                      timer>>
  /\ UNCHANGED <<isRunning, isBreak, events, lastOp, sinceOp, overlap, mounted,
                 closeCalls>>

\* the cleanup of the hook's effects on unmount: stopAll(), close the
\* context if there is one, and remove the unlock handler's listeners
Cleanup(e) ==
  LET e1 == StopAll(e)
  IN  IF e1.threw \/ e1.audioCtx = "null" THEN e1
      ELSE [e1 EXCEPT !.audioCtx = "closed"]

Unmount ==
  /\ mounted /\ mounted' = FALSE
  /\ LET e == Cleanup(Engine)
     IN  /\ Install(e)
         /\ closeCalls' = IF e.audioCtx = "closed" THEN closeCalls + 1 ELSE closeCalls
         /\ lastOp' = OpRecord("unmount", 0, e)
  /\ listeners' = {}
  /\ sinceOp' = 0 /\ overlap' = NoOverlap
  /\ UNCHANGED <<isRunning, isBreak, events, unlockRuns>>

Next ==
  \/ \E m \in SoundMode : CallSetMode(m)
  \/ \E on \in BOOLEAN : CallSetEnabled(on)
  \/ \E v \in VolumeInputs : CallSetVolume(v)
  \/ Render
  \/ Tick
  \/ \E timeUp \in BOOLEAN : TimerSignal(timeUp)
  \/ \E kind \in UnlockEvents : Gesture(kind)
  \/ Unmount

Spec == Init /\ [][Next]_vars

\* createNoiseBuffer(context, type) on its own: the loop writes one sample
\* per step from a random input
NoiseInit == HookInit /\ noise \in {NewBuffer(t) : t \in NoiseTypes}

WriteSample(r) ==
  /\ noise.i < MaxSamples
  /\ noise.i > 0 /\ r # noise.r => noise.changes < MaxChanges
  /\ noise' = NoiseStep(noise, r)
  /\ UNCHANGED <<mode, enabled, volume, modeState, enabledState, volumeState,
                 isRunning, isBreak, audioCtx, masterGain, nodes, currentNodes,
                 events, lastOp, sinceOp, masterRampBy, overlap, mounted,
                 listeners, ctxCreated, closeCalls, unlockRuns, timer>>

NoiseNext == \E r \in RandomInputs : WriteSample(r)

NoiseSpec == NoiseInit /\ [][NoiseNext]_vars

TypeOK ==
  /\ mode \in SoundMode /\ modeState \in SoundMode
  /\ enabled \in BOOLEAN /\ enabledState \in BOOLEAN
  /\ volume \in 0..FULL_VOLUME /\ volumeState \in 0..FULL_VOLUME
  /\ audioCtx \in {"null", "closed"} \cup ContextStates
  /\ currentNodes \in 0..Len(nodes)
  /\ Len(nodes) <= events /\ events <= MaxEvents
  /\ masterGain.val \in 0..FULL_VOLUME

(* ------------------------------- claims -------------------------------- *)

Rendered == <<modeState, enabledState, volumeState>> = <<mode, enabled, volume>>

\* the specified master-gain target f(enabled, isRunning, isBreak, volume)
GainTarget(en, run, brk, vol) ==
  IF ~en THEN 0
  ELSE IF run /\ ~brk THEN vol
  ELSE (3 * vol) \div 10

\* the four targets the specification lists for volume 0.4: 0, 0.4, 0.12, 0.12
TargetAtInitialVolume(en, run, brk) ==
  IF ~en THEN 0 ELSE IF run /\ ~brk THEN 20 ELSE 6

\* C1: whenever enabled, isRunning, isBreak or volume changes while the audio
\* context exists, the step schedules a master ramp over the effect's ramp
\* length, from the gain's current value, whose end value is exactly
\* f(enabled, isRunning, isBreak, volume); for volume 0.4 the targets are
\* 0, 0.4, 0.12 and 0.12.
C1_MasterGainTarget ==
  [][ (/\ audioCtx # "null"
       /\ <<enabled, isRunning, isBreak, volume>>'
            # <<enabled, isRunning, isBreak, volume>>)
      => /\ masterGain'.tgt = GainTarget(enabled', isRunning', isBreak', volume')
         /\ masterGain'.rem = MASTER_RAMP
         /\ masterGain'.val = masterGain.val
         /\ volume' = INITIAL_VOLUME
              => masterGain'.tgt = TargetAtInitialVolume(enabled', isRunning', isBreak')
    ]_vars

\* C1 witness: the effect has ramped the master gain to 0.12 for a break
C1_Witness ==
  /\ masterRampBy = "effect" /\ enabled /\ isBreak /\ volume = INITIAL_VOLUME
  /\ masterGain.tgt = 6 /\ masterGain.val = 6

\* C2: after setEnabled(true) on a disabled engine, once the fade has elapsed
\* with no other call, the current graph's output gain equals the stored volume.
C2_FadeInReachesVolume ==
  (/\ lastOp.op = "setEnabled" /\ lastOp.arg = TRUE /\ ~lastOp.enabled
   /\ sinceOp = FADE_TIME)
  => /\ currentNodes # 0
     /\ nodes[currentNodes].gain.val = volumeState

\* the graph has not been released: it is connected and a source of it plays
\* with no stop scheduled
Active(g) == g.connected /\ \E f \in SourceFields : Sounding(g[f])

ActiveGraphs(e) == {i \in DOMAIN e.nodes : Active(e.nodes[i])}

\* the call has returned (or raised) and the next one starts
Returned(e) == [e EXCEPT !.threw = FALSE]

RECURSIVE Elapse(_, _)
\* n ticks of the audio clock
Elapse(e, n) == IF n = 0 THEN e ELSE Elapse(AdvanceClock(e), n - 1)

\* re-render, then let every ramp and scheduled stop elapse
Settle(e) == Elapse(RenderHook(Returned(e), e.isRunning, e.isBreak), FADE_TIME)

\* what is compared between two runs: the graphs still playing, the current
\* graph's mode and output gain, and the master gain
SteadyState(e) ==
  [graphs |-> Cardinality(ActiveGraphs(e)),
   mode |-> IF e.currentNodes = 0 THEN "none" ELSE e.nodes[e.currentNodes].mode,
   gain |-> IF e.currentNodes = 0 THEN 0 ELSE e.nodes[e.currentNodes].gain.val,
   master |-> e.masterGain.val]

EnableOnce(e) == Settle(SetEnabled(e, TRUE, "running"))

\* setEnabled(true) twice within one event handler
EnableTwiceBatched(e) ==
  Settle(SetEnabled(Returned(SetEnabled(e, TRUE, "running")), TRUE, "running"))

\* setEnabled(true) twice with a re-render in between
EnableTwiceRendered(e) ==
  LET e1 == SetEnabled(e, TRUE, "running")
      e2 == RenderHook(Returned(e1), e1.isRunning, e1.isBreak)
  IN  Settle(SetEnabled(e2, TRUE, "running"))

\* C3: from a disabled engine, setEnabled(true) twice in a row (with or
\* without a re-render in between) ends in the same steady state as once.
C3_EnableIdempotent ==
  (~enabled /\ ~enabledState /\ Rendered)
  => /\ SteadyState(EnableTwiceBatched(Engine)) = SteadyState(EnableOnce(Engine))
     /\ SteadyState(EnableTwiceRendered(Engine)) = SteadyState(EnableOnce(Engine))

Silent(src) == src.st \in {"absent", "stopped"}

\* C4: at no time is more than one graph unreleased, and that graph is the
\* current one; once the fade has elapsed after a setMode made while enabled,
\* a current graph exists, it is the only one playing, and every periodic
\* source of the previous graph has been stopped.
C4_OneGraphAfterSwitch ==
  /\ Cardinality(ActiveGraphs(Engine)) <= 1
  /\ ActiveGraphs(Engine) \subseteq {currentNodes}
  /\ (lastOp.op = "setMode" /\ lastOp.enabled /\ sinceOp = FADE_TIME)
     => /\ currentNodes # 0
        /\ ActiveGraphs(Engine) = {currentNodes}
        /\ \A i \in DOMAIN nodes :
             i # currentNodes => \A f \in SourceFields : Silent(nodes[i][f])

\* C4 witness: a waves graph was replaced and all four of its sources stopped
C4_Witness ==
  /\ lastOp.op = "setMode" /\ lastOp.enabled /\ sinceOp = FADE_TIME
  /\ lastOp.prev # 0 /\ nodes[lastOp.prev].mode = "waves"
  /\ \A f \in SourceFields : nodes[lastOp.prev][f].st = "stopped"
  /\ currentNodes = Len(nodes) /\ currentNodes # lastOp.prev

\* C5: with the engine enabled and every state update rendered, there is a
\* current graph and it was built for the stored mode.
C5_GraphMatchesMode ==
  (enabled /\ enabledState /\ Rendered)
  => /\ currentNodes # 0
     /\ ActiveGraphs(Engine) = {currentNodes}
     /\ nodes[currentNodes].mode = mode

\* C6: no public call raises.
C6_NoCallThrows == ~lastOp.threw

\* C7: when a crossfade window opened by a mode switch has elapsed, there was
\* an instant in it at which the outgoing and the incoming output gain were
\* both above 0.
C7_CrossfadeOverlap == (overlap.open /\ overlap.left = 0) => overlap.seen

C9_VolumeClamped ==
  /\ volume >= 0 /\ volume <= FULL_VOLUME
  /\ volumeState >= 0 /\ volumeState <= FULL_VOLUME
  /\ lastOp.op = "setVolume"
       => /\ ~lastOp.threw
          /\ lastOp.arg < 0 => volumeState = 0
          /\ lastOp.arg > FULL_VOLUME => volumeState = FULL_VOLUME
          /\ lastOp.arg \in 0..FULL_VOLUME => volumeState = lastOp.arg
          /\ currentNodes # 0 => nodes[currentNodes].gain.tgt = volumeState

\* C9 witness: setVolume(1.5) with a graph playing ramped its gain to 1.0
C9_Witness ==
  /\ lastOp.op = "setVolume" /\ lastOp.arg > FULL_VOLUME
  /\ currentNodes # 0
  /\ nodes[currentNodes].gain = Param(FULL_VOLUME)
  /\ volume = FULL_VOLUME

\* C10: while the engine is disabled (and the disabling has been rendered)
\* there is no current graph.
C10_NoGraphWhileDisabled ==
  (~enabled /\ ~enabledState) => currentNodes = 0

\* C11: over any sequence of gestures and public calls the audio context
\* (with its master gain) is constructed at most once, and only when the
\* unlock handler or a startMode needs it; while the hook is mounted the
\* context is not closed; at unmount the current graph is released and the
\* context, if it was constructed, is closed exactly once; after unmount
\* nothing constructs or touches the context, the master gain or a graph.
C11_SingleLifecycle ==
  /\ [](/\ ctxCreated <= 1 /\ closeCalls <= 1
        /\ (ctxCreated = 0) = (audioCtx = "null")
        /\ (unlockRuns = 0 /\ nodes = <<>>) => audioCtx = "null"
        /\ mounted => (closeCalls = 0 /\ audioCtx # "closed")
        /\ ~mounted => /\ currentNodes = 0
                       /\ \A i \in DOMAIN nodes : ~nodes[i].connected
                       /\ closeCalls = ctxCreated
                       /\ audioCtx \in {"null", "closed"})
  /\ [][~mounted => UNCHANGED <<audioCtx, masterGain, nodes, currentNodes,
                                ctxCreated, closeCalls>>]_vars

\* C11 witness: the hook was unmounted with a graph playing; the graph was
\* released and the one context closed
C11_Witness ==
  /\ ~mounted /\ lastOp.op = "unmount" /\ lastOp.prev # 0
  /\ ctxCreated = 1 /\ closeCalls = 1 /\ audioCtx = "closed"
  /\ currentNodes = 0

C13_NoOrphanedSources ==
  \A i \in DOMAIN nodes : \A f \in SourceFields :
     (i # currentNodes \/ ~mounted) => ~Sounding(nodes[i][f])

\* C13 witness: disable during a mode switch; the graph retired by the
\* switch is still inside its fade when the new one is stopped as well
C13_Witness ==
  /\ Len(nodes) = 2 /\ currentNodes = 0
  /\ lastOp.op = "setEnabled" /\ lastOp.arg = FALSE
  /\ nodes[1].source.stopIn > 0 /\ nodes[1].gain.rem > 0
  /\ nodes[2].source.stopIn > 0

\* C14: for each noise colour and every stream of random inputs, every
\* sample written by the generator lies in [-1, 1].
C14_SamplesInUnitRange ==
  noise.i > 0 => (noise.data >= 0 - UNIT /\ noise.data <= UNIT)

\* C14 as amended: every white sample lies in [-1, 1]; the brown filter's
\* lastOut stays in [-1, 1], so every brown sample lies in [-3.5, 3.5]; every
\* pink sample lies in [-7.61, 7.61].
C14_SamplesBounded ==
  noise.i > 0 =>
    /\ noise.type = "white" => (noise.data >= 0 - UNIT /\ noise.data <= UNIT)
    /\ noise.type = "brown" =>
          /\ noise.lastOut >= 0 - UNIT /\ noise.lastOut <= UNIT
          /\ noise.data >= 0 - (35 * UNIT) \div 10
          /\ noise.data <= (35 * UNIT) \div 10
    /\ noise.type = "pink" =>
          /\ noise.data >= 0 - (761 * UNIT) \div 100
          /\ noise.data <= (761 * UNIT) \div 100

\* C14 witness: a brown sample outside [-1, 1], after a run of inputs at
\* their lower end
C14_Witness ==
  /\ noise.type = "brown" /\ noise.i > 0 /\ noise.changes = 0 /\ noise.r = 0
  /\ noise.data < 0 - UNIT

\* the step from parameter p to q is no jump: q is p left alone, p one tick
\* further along its ramp, or a new ramp of one of the code's lengths that
\* starts at p's value
Supersedes(p, q) ==
  \/ q = p
  \/ q = AdvanceParam(p)
  \/ q.val = p.val /\ q.rem \in {FADE_TIME, VOLUME_RAMP, MASTER_RAMP}

\* C15: in every step, the master gain (once it exists) and the output gain
\* of every graph built so far either keep their schedule, advance along it,
\* or get a new ramp that replaces the pending one and starts at the
\* parameter's current, possibly partial, value: no gain jumps.
C15_RampSupersession ==
  [][ /\ audioCtx # "null" => Supersedes(masterGain, masterGain')
      /\ \A i \in DOMAIN nodes : Supersedes(nodes[i].gain, nodes'[i].gain)
    ]_vars

\* C15 witness: the master ramp of enabling (0 -> 0.12) was in flight when
\* the volume changed; the effect restarted it from the partial value
C15_Witness ==
  /\ lastOp.op = "setVolume" /\ sinceOp = 0 /\ Rendered
  /\ masterRampBy = "effect" /\ masterGain.rem = MASTER_RAMP
  /\ masterGain.val > 0 /\ masterGain.val < 6
  /\ masterGain.tgt # 6

\* C16: while the hook is mounted, a graph that was replaced by a mode change
\* or released by disable, and whose fade-out has not elapsed yet (its noise
\* player's scheduled stop is still ahead), is still connected to the master
\* gain and none of its sources has stopped.
C16_ReleaseAfterFade ==
  \A i \in DOMAIN nodes :
     (mounted /\ i # currentNodes /\ nodes[i].source.stopIn > 0)
        => /\ nodes[i].connected
           /\ \A f \in SourceFields : nodes[i][f].st # "stopped"

\* C17: every node created for a graph is held by the ModeNodes returned
\* for it, and a released graph keeps none of its connections.
C17_FullNodeOwnership ==
  \A i \in DOMAIN nodes :
     /\ CreatedNodes(nodes[i].mode) \subseteq ReturnedNodes(nodes[i].mode)
     /\ ~nodes[i].connected => nodes[i].edges = {}

\* C18: in every step, a graph that is not the current one (replaced by a
\* mode change, released by disable or by unmount) is left alone or advances
\* along the fade-out and stops scheduled when it was retired; nothing new is
\* scheduled on it.
C18_RetiredGraphUntouched ==
  [][ \A i \in DOMAIN nodes :
        i # currentNodes
          => (nodes'[i] = nodes[i] \/ nodes'[i] = AdvanceGraph(nodes[i]))
    ]_vars

\* C18 witness: setVolume was called while the graph replaced by a mode
\* change was inside its fade-out; only the current graph got the ramp
C18_Witness ==
  /\ lastOp.op = "setVolume" /\ sinceOp = 0
  /\ Len(nodes) = 2 /\ currentNodes = 2
  /\ nodes[1].gain.rem > 0 /\ nodes[1].gain.tgt = 0 /\ nodes[1].source.stopIn > 0
  /\ nodes[2].gain.rem = VOLUME_RAMP /\ nodes[2].gain.tgt = volumeState

\* C19: whenever the engine is enabled (as rendered), there is a current
\* graph and every ramp scheduled on its output gain has elapsed, that gain
\* equals the stored volume.
C19_GraphGainTracksVolume ==
  (enabled /\ enabledState /\ Rendered /\ currentNodes # 0
     /\ nodes[currentNodes].gain.rem = 0)
    => nodes[currentNodes].gain.val = volume

\* C20: every periodic source of every graph was started by buildModeNodes
\* itself and has received start exactly once.
C20_SourcesStartedOnceByBuilder ==
  \A i \in DOMAIN nodes : \A f \in SourceFields :
     nodes[i][f].st # "absent"
       => /\ BuilderStarts(nodes[i].mode)[f] = 1
          /\ nodes[i].startCalls[f] = 1

\* C21: in the teardown of every released graph, no stop call comes after a
\* disconnect call: all of the graph's sources are stopped before any of its
\* nodes is disconnected.
C21_StopBeforeDisconnect ==
  \A i \in DOMAIN nodes :
     \A j, k \in DOMAIN nodes[i].teardown :
        j < k => ~(/\ nodes[i].teardown[j][1] = "disconnect"
                   /\ nodes[i].teardown[k][1] = "stop")

\* C22: while the hook is mounted and its context is suspended (no resume
\* has succeeded yet), the unlock handler still listens for click and
\* touchstart, so that the next gesture attempts resume again.
C22_SuspendedContextRetries ==
  (mounted /\ audioCtx = "suspended") => listeners = UnlockEvents

(* ------------------------------ the timer ------------------------------ *)

\* the minutes typed into the two settings inputs
Minutes == {1, 2}

\* the timer store as one record
Store ==
  [isRunning |-> isRunning, isBreak |-> isBreak, timeLeft |-> timer.timeLeft,
   focusTime |-> timer.focusTime, breakTime |-> timer.breakTime]

\* resetTimer()
ResetTimer(s) ==
  [s EXCEPT !.isRunning = FALSE,
            !.timeLeft = IF s.isBreak THEN s.breakTime ELSE s.focusTime]

\* mutant of ToggleTimer: the new phase starts with the old phase's duration
ToggleTimerOldDuration(s) ==
  IF s.timeLeft <= 0
  THEN [s EXCEPT !.isBreak = ~s.isBreak,
                 !.timeLeft = IF s.isBreak THEN s.breakTime ELSE s.focusTime,
                 !.isRunning = TRUE]
  ELSE [s EXCEPT !.isRunning = ~s.isRunning]

\* toggleTimer()
ToggleTimer(s) ==
  IF s.timeLeft <= 0
  THEN [s EXCEPT !.isBreak = ~s.isBreak,
                 !.timeLeft = IF ~s.isBreak THEN s.breakTime ELSE s.focusTime,
                 !.isRunning = TRUE]
  ELSE [s EXCEPT !.isRunning = ~s.isRunning]

\* mutant of SetFocusTime: timeLeft is not brought to the new duration
SetFocusTimeKeepsTimeLeft(s, minutes) == [s EXCEPT !.focusTime = minutes * 60]

\* setFocusTime(minutes); its two set() calls run within one event handler
SetFocusTime(s, minutes) ==
  LET seconds == minutes * 60
      s1 == [s EXCEPT !.focusTime = seconds]
  IN  IF ~s1.isBreak THEN [s1 EXCEPT !.timeLeft = seconds] ELSE s1

\* setBreakTime(minutes)
SetBreakTime(s, minutes) ==
  LET seconds == minutes * 60
      s1 == [s EXCEPT !.breakTime = seconds]
  IN  IF s1.isBreak THEN [s1 EXCEPT !.timeLeft = seconds] ELSE s1

\* mutant of IntervalCallback: at 0 the callback does nothing
IntervalCallbackStopsAtZero(s) ==
  IF ~s.isRunning THEN s
  ELSE IF s.timeLeft > 0 THEN [s EXCEPT !.timeLeft = @ - 1]
  ELSE s

\* the callback of the Timer component's setInterval
IntervalCallback(s) ==
  IF ~s.isRunning THEN s
  ELSE IF s.timeLeft > 0 THEN [s EXCEPT !.timeLeft = @ - 1]
  ELSE ToggleTimer(s)

\* the hook before any call, as a record
InitialEngine ==
  [mode |-> "rain", enabled |-> FALSE, volume |-> INITIAL_VOLUME,
   modeState |-> "rain", enabledState |-> FALSE, volumeState |-> INITIAL_VOLUME,
   isRunning |-> FALSE, isBreak |-> FALSE, audioCtx |-> "null",
   masterGain |-> Param(0), nodes |-> <<>>, currentNodes |-> 0,
   masterRampBy |-> "none", ctxCreated |-> 0, threw |-> FALSE]

\* the hook after setEnabled(true) in a running context, re-rendered and
\* with every ramp elapsed
EnabledEngine == Settle(SetEnabled(InitialEngine, TRUE, "running"))

HookIs(e) ==
  /\ mode = e.mode /\ enabled = e.enabled /\ volume = e.volume
  /\ modeState = e.modeState /\ enabledState = e.enabledState
  /\ volumeState = e.volumeState
  /\ audioCtx = e.audioCtx
  /\ masterGain = e.masterGain /\ nodes = e.nodes
  /\ currentNodes = e.currentNodes /\ masterRampBy = e.masterRampBy
  /\ ctxCreated = e.ctxCreated

\* the timer on its own, with the sound either never enabled or playing
TimerInit ==
  /\ \E e \in {InitialEngine, EnabledEngine} :
       /\ HookIs(e)
       /\ listeners = IF e.audioCtx = "null" THEN UnlockEvents ELSE {}
       /\ unlockRuns = IF e.audioCtx = "null" THEN 0 ELSE 1
       /\ events = Len(e.nodes)
  /\ isRunning = FALSE /\ isBreak = FALSE
  /\ lastOp = NoOp /\ sinceOp = 0 /\ overlap = NoOverlap
  /\ mounted = TRUE /\ closeCalls = 0
  /\ noise = NoBuffer /\ timer = InitialTimer

\* a step of the store: the new store state is set, and the audio hook,
\* subscribed to the store, re-renders
Commit(s, name) ==
  /\ isRunning' = s.isRunning /\ isBreak' = s.isBreak
  /\ timer' = [timer EXCEPT !.timeLeft = s.timeLeft, !.focusTime = s.focusTime,
                            !.breakTime = s.breakTime, !.op = name,
                            !.at = timer.timeLeft]
  /\ InstallHook(RenderHook(Engine, s.isRunning, s.isBreak))
  /\ UNCHANGED <<events, lastOp, sinceOp, overlap, mounted, listeners,
                 closeCalls, unlockRuns, noise>>

\* the registered interval fires
IntervalTick == timer.timerRef /\ Commit(IntervalCallback(Store), "tick")

\* the Start/Pause and Reset buttons, and the two settings inputs
ClickToggle == Commit(ToggleTimer(Store), "toggleTimer")

ClickReset == Commit(ResetTimer(Store), "resetTimer")

ChangeFocusTime(minutes) == Commit(SetFocusTime(Store, minutes), "setFocusTime")

ChangeBreakTime(minutes) == Commit(SetBreakTime(Store, minutes), "setBreakTime")

\* the Timer component's effect on [isRunning, isBreak]: the interval is
\* registered while the timer runs and cleared while it does not.  The
\* effect is passive and may run later than the render that queued it.
TimerEffect ==
  /\ timer.timerRef # isRunning
  /\ timer' = [timer EXCEPT !.timerRef = isRunning]
  /\ UNCHANGED <<mode, enabled, volume, modeState, enabledState, volumeState,
                 isRunning, isBreak, audioCtx, masterGain, nodes, currentNodes,
                 events, lastOp, sinceOp, masterRampBy, overlap, mounted,
                 listeners, ctxCreated, closeCalls, unlockRuns, noise>>

TimerNext ==
  \/ IntervalTick
  \/ ClickToggle
  \/ ClickReset
  \/ \E minutes \in Minutes : ChangeFocusTime(minutes)
  \/ \E minutes \in Minutes : ChangeBreakTime(minutes)
  \/ TimerEffect

TimerSpec == TimerInit /\ [][TimerNext]_vars

\* the new store, as a record
InitialStore ==
  [isRunning |-> FALSE, isBreak |-> FALSE, timeLeft |-> FOCUS_TIME,
   focusTime |-> FOCUS_TIME, breakTime |-> BREAK_TIME]

\* the store after Start was pressed, with the settings untouched or both
\* typed in before
StartedStores ==
  {ToggleTimer(s) :
     s \in {InitialStore}
            \cup {SetBreakTime(SetFocusTime(InitialStore, f), b) :
                     f \in Minutes, b \in Minutes}}

\* the timer from the moment Start was pressed, with nobody pausing,
\* resetting or reconfiguring it afterwards: only the interval and the
\* Timer component's effect act
RunningInit ==
  /\ \E e \in {InitialEngine, EnabledEngine} :
       /\ HookIs(RenderHook(e, TRUE, FALSE))
       /\ listeners = IF e.audioCtx = "null" THEN UnlockEvents ELSE {}
       /\ unlockRuns = IF e.audioCtx = "null" THEN 0 ELSE 1
       /\ events = Len(e.nodes)
  /\ \E s \in StartedStores :
       /\ isRunning = s.isRunning /\ isBreak = s.isBreak
       /\ timer = [InitialTimer EXCEPT !.timeLeft = s.timeLeft,
                                       !.focusTime = s.focusTime,
                                       !.breakTime = s.breakTime,
                                       !.op = "toggleTimer",
                                       !.at = s.timeLeft]
  /\ lastOp = NoOp /\ sinceOp = 0 /\ overlap = NoOverlap
  /\ mounted = TRUE /\ closeCalls = 0
  /\ noise = NoBuffer

RunningNext == IntervalTick \/ TimerEffect

\* a registered interval keeps firing, and a queued effect does run
TimerLiveSpec ==
  RunningInit /\ [][RunningNext]_vars
    /\ WF_vars(IntervalTick) /\ WF_vars(TimerEffect)

\* the duration of the current phase
PhaseTime == IF isBreak THEN timer.breakTime ELSE timer.focusTime

TimerTypeOK ==
  /\ timer.timeLeft \in 0..FOCUS_TIME
  /\ timer.focusTime \in {FOCUS_TIME} \cup {m * 60 : m \in Minutes}
  /\ timer.breakTime \in {BREAK_TIME} \cup {m * 60 : m \in Minutes}

\* a step of the store made by the interval, or by the named store function
StoreStep(name) == timer'.op = name /\ timer'.timerRef = timer.timerRef

\* C23: in every state reachable through interval ticks, toggleTimer,
\* resetTimer, setFocusTime and setBreakTime (minutes >= 1),
\* 0 <= timeLeft <= the duration of the current phase; a tick takes timeLeft
\* down by at most 1 and never below 0, and while the timer is paused it
\* changes nothing in the store.
C23_TimerBounds ==
  /\ [](timer.timeLeft >= 0 /\ timer.timeLeft <= PhaseTime)
  /\ [][ StoreStep("tick")
           => /\ timer'.timeLeft >= 0
              /\ timer'.timeLeft >= timer.timeLeft - 1
              /\ timer.timeLeft > 0 => timer'.timeLeft <= timer.timeLeft
              /\ ~isRunning => Store' = Store
       ]_vars

\* C23 witness: a break shortened to one minute was counted down to 0
C23_Witness ==
  /\ timer.op = "tick" /\ timer.at = 1 /\ timer.timeLeft = 0
  /\ isBreak /\ isRunning /\ timer.breakTime = 60

\* C24: isBreak changes only in a step of the interval or of toggleTimer
\* that finds timeLeft <= 0, and that step sets timeLeft to the full
\* duration of the new phase and isRunning to true; toggleTimer with
\* timeLeft > 0 flips isRunning and nothing else; resetTimer, setFocusTime
\* and setBreakTime leave isBreak alone.
C24_PhaseSwitching ==
  [][ /\ isBreak' # isBreak
           => /\ timer.timeLeft <= 0
              /\ timer'.op \in {"tick", "toggleTimer"}
              /\ timer'.timeLeft = PhaseTime'
              /\ isRunning'
      /\ (StoreStep("toggleTimer") /\ timer.timeLeft > 0)
           => Store' = [Store EXCEPT !.isRunning = ~isRunning]
      /\ (StoreStep("resetTimer") \/ StoreStep("setFocusTime")
             \/ StoreStep("setBreakTime"))
           => isBreak' = isBreak
    ]_vars

\* C24 witness: the user pressed Start/Pause when timeLeft was 0; the phase
\* went from focus to break with the break's full duration
C24_Witness ==
  /\ timer.op = "toggleTimer" /\ timer.at = 0
  /\ isBreak /\ isRunning /\ timer.timeLeft = timer.breakTime

\* C25: once the timer runs and only the interval acts on the store (no
\* pause, reset or reconfiguration), under fair interval ticks focus and
\* break phases alternate forever; every phase flip finds timeLeft at 0,
\* leaves the timer running, and, when the audio context exists, re-targets
\* the master gain to f(enabled, isRunning, isBreak, volume) from its
\* current value.
C25_TimerProgress ==
  /\ []<>isBreak /\ []<>~isBreak
  /\ []isRunning
  /\ [][ isBreak' # isBreak
           => /\ timer.timeLeft = 0 /\ isRunning'
              /\ audioCtx # "null"
                   => /\ masterGain'.tgt =
                           GainTarget(enabled', isRunning', isBreak', volume')
                      /\ masterGain'.val = masterGain.val
                      /\ masterGain'.rem = MASTER_RAMP
       ]_vars

\* C25 witness: with the sound enabled, the interval ended a one-minute
\* focus phase; the master gain is on its way to the break's 0.3 * volume
C25_Witness ==
  /\ timer.op = "tick" /\ timer.at = 0 /\ isBreak /\ isRunning
  /\ timer.focusTime = 60 /\ timer.timeLeft = timer.breakTime
  /\ enabled /\ audioCtx = "running"
  /\ masterGain.tgt = 6 /\ masterGain.rem = MASTER_RAMP

====
